---- MODULE Spec2Model ----
(***************************************************************************)
(* Model of pdf_ingestion.py: list the PDF files of a directory, extract   *)
(* their pages and upsert the pages into the SQLite table pdf_pages.       *)
(*                                                                         *)
(* File names and page texts are sequences of character codes, so that     *)
(* sorting, pattern matching and stripping are computed as the code        *)
(* computes them.  The table is a bag of rows <<file_name, page_number,    *)
(* content>>, so that a duplicated row would be visible.                   *)
(***************************************************************************)
EXTENDS Integers, Sequences, FiniteSets, Bags, TLC

\* ------------------------------------------------------------------ bounds
MaxPages == 1      \* pages per PDF file in the source directory
MaxLimit == 2      \* largest --limit tried
MaxRuns  == 3      \* ingestion runs against the same database
MaxChanges == 2    \* changes of the source directory between runs
MaxBatch == 2      \* length of a batch handed directly to store_pages_in_db,
                   \* and of the batch that left the table it finds
MaxListed == 4     \* files of a directory handed directly to collect_pdf_files

\* --------------------------------------------------------- character data
\* "a.pdf", "B.pdf", "ab.pdf", "a-b.pdf" and the non-matching "a.txt", "pdf"
APdf   == <<97, 46, 112, 100, 102>>
BPdf   == <<66, 46, 112, 100, 102>>
ABPdf  == <<97, 98, 46, 112, 100, 102>>
ADBPdf == <<97, 45, 98, 46, 112, 100, 102>>
ATxt   == <<97, 46, 116, 120, 116>>
Pdf    == <<112, 100, 102>>

\* PDF files the source directory of an ingestion run may hold; it always
\* holds a.txt as well
RunNames == {APdf, BPdf}
\* names a directory handed to collect_pdf_files alone may hold
ListNames == {APdf, BPdf, ABPdf, ADBPdf, ATxt, Pdf}

\* str.strip() without argument removes these (space, \t, \n, \r, \v, \f)
Whitespace == {32, 9, 10, 13, 11, 12}

\* what page.extract_text() returns: None, or a string
None      == [none |-> TRUE,  chars |-> <<>>]
Text(s)   == [none |-> FALSE, chars |-> s]
\* " x y\n"
RawXY     == Text(<<32, 120, 32, 121, 10>>)
RawTexts  == {None, RawXY}

\* -------------------------------------------------------- pure functions
Min(a, b) == IF a < b THEN a ELSE b
Max(a, b) == IF a > b THEN a ELSE b

\* Python's str/tuple ordering: code point by code point, a proper prefix first
RECURSIVE LexLess(_, _)
LexLess(a, b) ==
    IF b = <<>> THEN FALSE
    ELSE IF a = <<>> THEN TRUE
    ELSE IF Head(a) # Head(b) THEN Head(a) < Head(b)
    ELSE LexLess(Tail(a), Tail(b))

\* sorted(...) of a set of distinct names
RECURSIVE sorted(_)
sorted(S) ==
    IF S = {} THEN <<>>
    ELSE LET m == CHOOSE x \in S : \A y \in S \ {x} : LexLess(x, y)
         IN  <<m>> \o sorted(S \ {m})

\* the pattern "*.pdf": any name that ends in ".pdf"
MatchesPdf(name) ==
    /\ Len(name) >= 4
    /\ SubSeq(name, Len(name) - 3, Len(name)) = <<46, 112, 100, 102>>

\* source_dir.glob("*.pdf"); d is the directory, a function on its names
glob(d) == {n \in DOMAIN d : MatchesPdf(n)}

\* Python's seq[-limit:] for a positive limit
SliceTo_Last(seq, limit) ==
    LET n == Len(seq)
    IN  SubSeq(seq, Max(1, n - limit + 1), n)

\* Python's seq[:limit]
SliceTo(seq, limit) ==
    LET n    == Len(seq)
        stop == IF limit < 0 THEN Max(0, n + limit) ELSE Min(limit, n)
    IN  SubSeq(seq, 1, stop)

collect_pdf_files(d, limit) == SliceTo(sorted(glob(d)), limit)

RECURSIVE LStrip(_)
LStrip(s) == IF s # <<>> /\ Head(s) \in Whitespace THEN LStrip(Tail(s)) ELSE s

RECURSIVE RStrip(_)
RStrip(s) ==
    IF s # <<>> /\ s[Len(s)] \in Whitespace
    THEN RStrip(SubSeq(s, 1, Len(s) - 1)) ELSE s

Strip(s) == RStrip(LStrip(s))

\* (page.extract_text() or "").strip()
PageContent(raw) == Strip(IF raw.none THEN <<>> ELSE raw.chars)

\* enumerate without start=1, and the text as extracted
extract_pages_Raw(pages) ==
    [i \in 1..Len(pages) |->
        <<i - 1, IF pages[i].none THEN <<>> ELSE pages[i].chars>>]

\* the pairs extract_pages yields for the pages of one readable file
extract_pages(pages) == [i \in 1..Len(pages) |-> <<i, PageContent(pages[i])>>]

\* the records the inner loop of ingest_pdfs appends for one file
FileRecords(name, pages) ==
    [i \in 1..Len(pages) |->
        <<name, extract_pages(pages)[i][1], extract_pages(pages)[i][2]>>]

Key(row) == <<row[1], row[2]>>

\* a plain INSERT into a table without the primary key
InsertOrReplace_NoKey(tbl, rec) == tbl (+) SetToBag({rec})

\* INSERT OR IGNORE: a record whose key has a row is dropped
InsertOrReplace_Ignore(tbl, rec) ==
    IF \E r \in DOMAIN tbl : Key(r) = Key(rec) THEN tbl
    ELSE tbl (+) SetToBag({rec})

\* INSERT OR REPLACE into a table with PRIMARY KEY (page_number)
InsertOrReplace_PageKey(tbl, rec) ==
    LET keep == {r \in DOMAIN tbl : r[2] # rec[2]}
    IN  [r \in keep |-> tbl[r]] (+) SetToBag({rec})

\* INSERT OR REPLACE of one record into a table with PRIMARY KEY
\* (file_name, page_number): rows with the record's key are deleted, then
\* the record is inserted
InsertOrReplace(tbl, rec) ==
    LET keep == {r \in DOMAIN tbl : Key(r) # Key(rec)}
    IN  [r \in keep |-> tbl[r]] (+) SetToBag({rec})

\* ----------------------------------------------------------------- state
VARIABLES
    dir,          \* the source directory: name -> [corrupt, pages]
    dbExists,     \* the database file exists
    tableExists,  \* the table pdf_pages exists (committed)
    db,           \* committed rows of pdf_pages, a bag
    pc,           \* position of the running call
    limit,        \* the --limit the operator passes to every run
    pdf_files,    \* ingest_pdfs: the list returned by collect_pdf_files
    idx,          \* ingest_pdfs: index of the next file of pdf_files
    records,      \* ingest_pdfs: accumulated records / the writer's batch
    txn,          \* rows as seen inside the open transaction
    pos,          \* executemany: index of the next record
    error,        \* the exception that left the call, or "none"
    storeCalls,   \* calls of store_pages_in_db in the running call
    dbBefore,     \* rows of pdf_pages when the running call started
    existedBefore,\* <<dbExists, tableExists>> when the running call started
    runs,         \* ingestion runs started so far
    changes,      \* changes made to the directory so far
    rerun         \* the previous run met no storage error, and the
                  \* directory is as that run saw it

vars == <<dir, dbExists, tableExists, db, pc, limit, pdf_files, idx, records,
          txn, pos, error, storeCalls, dbBefore, existedBefore,
          runs, changes, rerun>>


\* type=int accepts any integer as --limit; negative, zero and positive ones
Limits == (0 - 1)..MaxLimit

\* a file of the directory: unreadable for PdfReader, or a list of pages
Corrupt == [corrupt |-> TRUE, pages |-> <<>>]
Readable(pages) == [corrupt |-> FALSE, pages |-> pages]
PageLists == UNION {[1..n -> RawTexts] : n \in 0..MaxPages}
FileContents == {Corrupt} \cup {Readable(p) : p \in PageLists}
Directories ==
    UNION {{[n \in S \cup {ATxt} |-> IF n = ATxt THEN Corrupt ELSE f[n]] :
              f \in [S -> FileContents]} : S \in SUBSET RunNames}

\* ------------------------------------------------------ ingestion runs
\* the values the locals of a call have while no call is running
NoCall ==
    /\ pdf_files = <<>>
    /\ idx = 1
    /\ records = <<>>
    /\ txn = EmptyBag
    /\ pos = 1
    /\ error = "none"
    /\ storeCalls = 0
    /\ dbBefore = EmptyBag
    /\ existedBefore = <<FALSE, FALSE>>

\* the database is absent, the directory is any directory, nothing runs
Init ==
    /\ dir \in Directories
    /\ limit \in Limits
    /\ dbExists = FALSE
    /\ tableExists = FALSE
    /\ db = EmptyBag
    /\ pc = "idle"
    /\ NoCall
    /\ runs = 0
    /\ changes = 0
    /\ rerun = FALSE

\* ingest_pdfs without the check for an empty list
IngestStart_NoCheck ==
    /\ pc = "idle"
    /\ runs < MaxRuns
    /\ pdf_files' = collect_pdf_files(dir, limit)
    /\ runs' = runs + 1
    /\ idx' = 1
    /\ records' = <<>>
    /\ storeCalls' = 0
    /\ dbBefore' = db
    /\ existedBefore' = <<dbExists, tableExists>>
    /\ pc' = IF pdf_files' = <<>> THEN "connect" ELSE "extract"
    /\ error' = "none"
    /\ UNCHANGED <<dir, limit, dbExists, tableExists, db, txn, pos, changes,
                   rerun>>

\* ingest_pdfs, lines 58-62: list the files, fail if there are none
IngestStart ==
    /\ pc = "idle"
    /\ runs < MaxRuns
    /\ pdf_files' = collect_pdf_files(dir, limit)
    /\ runs' = runs + 1
    /\ idx' = 1
    /\ records' = <<>>
    /\ storeCalls' = 0
    /\ dbBefore' = db
    /\ existedBefore' = <<dbExists, tableExists>>
    /\ IF pdf_files' = <<>>
       THEN pc' = "raised" /\ error' = "FileNotFoundError"
       ELSE pc' = "extract" /\ error' = "none"
    /\ UNCHANGED <<dir, limit, dbExists, tableExists, db, txn, pos, changes,
                   rerun>>

\* the outer loop stops at an unreadable file and what was extracted so far
\* is written
ExtractFile_WritePartial ==
    /\ pc = "extract"
    /\ LET f == dir[pdf_files[idx]]
       IN  IF f.corrupt
           THEN /\ pc' = "connect"
                /\ UNCHANGED <<idx, records, error>>
           ELSE /\ records' = records \o FileRecords(pdf_files[idx], f.pages)
                /\ idx' = idx + 1
                /\ pc' = IF idx = Len(pdf_files) THEN "connect" ELSE "extract"
                /\ UNCHANGED error
    /\ UNCHANGED <<dir, dbExists, tableExists, db, limit, pdf_files, txn, pos,
                   storeCalls, dbBefore, existedBefore, runs, changes, rerun>>

\* records is assigned inside the outer loop, not before it
ExtractFile_Reset ==
    /\ pc = "extract"
    /\ LET f == dir[pdf_files[idx]]
       IN  IF f.corrupt
           THEN /\ pc' = "raised"
                /\ error' = "PdfReadError"
                /\ UNCHANGED <<idx, records>>
           ELSE /\ records' = FileRecords(pdf_files[idx], f.pages)
                /\ idx' = idx + 1
                /\ pc' = IF idx = Len(pdf_files) THEN "connect" ELSE "extract"
                /\ UNCHANGED error
    /\ UNCHANGED <<dir, dbExists, tableExists, db, limit, pdf_files, txn, pos,
                   storeCalls, dbBefore, existedBefore, runs, changes, rerun>>

\* ingest_pdfs, lines 63-65: one pass of the outer loop; PdfReader raises on
\* an unreadable file; after the last file store_pages_in_db is called
ExtractFile ==
    /\ pc = "extract"
    /\ LET f == dir[pdf_files[idx]]
       IN  IF f.corrupt
           THEN /\ pc' = "raised"
                /\ error' = "PdfReadError"
                /\ UNCHANGED <<idx, records>>
           ELSE /\ records' = records \o FileRecords(pdf_files[idx], f.pages)
                /\ idx' = idx + 1
                /\ pc' = IF idx = Len(pdf_files) THEN "connect" ELSE "extract"
                /\ UNCHANGED error
    /\ UNCHANGED <<dir, dbExists, tableExists, db, limit, pdf_files, txn, pos,
                   storeCalls, dbBefore, existedBefore, runs, changes, rerun>>

\* store_pages_in_db, line 35: sqlite3.connect creates the file if absent,
\* or raises
Connect ==
    /\ pc = "connect"
    /\ storeCalls' = storeCalls + 1
    /\ \/ /\ dbExists' = TRUE
          /\ pc' = "create"
          /\ UNCHANGED error
       \/ /\ pc' = "raised"
          /\ error' = "sqlite3.Error"
          /\ UNCHANGED dbExists
    /\ UNCHANGED <<dir, tableExists, db, limit, pdf_files, idx, records, txn,
                   pos, dbBefore, existedBefore, runs, changes, rerun>>

\* store_pages_in_db, lines 37-46: CREATE TABLE IF NOT EXISTS runs outside
\* any transaction and is committed at once, or raises
CreateTable ==
    /\ pc = "create"
    /\ \/ /\ tableExists' = TRUE
          /\ pc' = "insert"
          /\ pos' = 1
          /\ txn' = db
          /\ UNCHANGED error
       \/ /\ pc' = "raised"
          /\ error' = "sqlite3.Error"
          /\ UNCHANGED <<tableExists, pos, txn>>
    /\ UNCHANGED <<dir, dbExists, db, limit, pdf_files, idx, records,
                   storeCalls, dbBefore, existedBefore, runs, changes, rerun>>

\* executemany in autocommit mode: every record is committed when written
InsertRow_Autocommit ==
    /\ pc = "insert"
    /\ pos <= Len(records)
    /\ \/ /\ txn' = InsertOrReplace(txn, records[pos])
          /\ db' = txn'
          /\ pos' = pos + 1
          /\ UNCHANGED <<pc, error>>
       \/ /\ txn' = db
          /\ pc' = "raised"
          /\ error' = "sqlite3.Error"
          /\ UNCHANGED <<pos, db>>
    /\ UNCHANGED <<dir, dbExists, tableExists, limit, pdf_files, idx,
                   records, storeCalls, dbBefore, existedBefore, runs, changes,
                   rerun>>

\* store_pages_in_db, lines 47-53: executemany writes the next record inside
\* the transaction; if it raises, the with block rolls the transaction back
InsertRow ==
    /\ pc = "insert"
    /\ pos <= Len(records)
    /\ \/ /\ txn' = InsertOrReplace(txn, records[pos])
          /\ pos' = pos + 1
          /\ UNCHANGED <<pc, error>>
       \/ /\ txn' = db
          /\ pc' = "raised"
          /\ error' = "sqlite3.Error"
          /\ UNCHANGED pos
    /\ UNCHANGED <<dir, dbExists, tableExists, db, limit, pdf_files, idx,
                   records, storeCalls, dbBefore, existedBefore, runs, changes,
                   rerun>>

\* store_pages_in_db, line 36: leaving the with block commits the
\* transaction; a failed commit is rolled back and raises
Commit ==
    /\ pc = "insert"
    /\ pos > Len(records)
    /\ \/ /\ db' = txn
          /\ pc' = "done"
          /\ UNCHANGED <<error, txn>>
       \/ /\ txn' = db
          /\ pc' = "raised"
          /\ error' = "sqlite3.Error"
          /\ UNCHANGED db
    /\ UNCHANGED <<dir, dbExists, tableExists, limit, pdf_files, idx, records,
                   pos, storeCalls, dbBefore, existedBefore, runs, changes,
                   rerun>>

\* main, lines 103-107: ingest_pdfs has returned or raised; the process ends
Return ==
    /\ pc \in {"done", "raised"}
    /\ pc' = "idle"
    /\ rerun' = (error # "sqlite3.Error")
    /\ pdf_files' = <<>>
    /\ idx' = 1
    /\ records' = <<>>
    /\ txn' = EmptyBag
    /\ pos' = 1
    /\ error' = "none"
    /\ storeCalls' = 0
    /\ dbBefore' = EmptyBag
    /\ existedBefore' = <<FALSE, FALSE>>
    /\ UNCHANGED <<dir, dbExists, tableExists, db, limit, runs, changes>>

\* between two runs one file of the directory is added, regenerated or
\* removed
ChangeDir ==
    /\ pc = "idle"
    /\ runs >= 1
    /\ runs < MaxRuns
    /\ changes < MaxChanges
    /\ \E d \in Directories :
        /\ Cardinality({n \in RunNames :
              \/ (n \in DOMAIN d) # (n \in DOMAIN dir)
              \/ (n \in DOMAIN d /\ n \in DOMAIN dir /\ d[n] # dir[n])}) = 1
        /\ dir' = d
    /\ changes' = changes + 1
    /\ rerun' = FALSE
    /\ UNCHANGED <<dbExists, tableExists, db, pc, limit, pdf_files, idx,
                   records, txn, pos, error, storeCalls, dbBefore,
                   existedBefore, runs>>

Next ==
    \/ IngestStart
    \/ ExtractFile
    \/ Connect
    \/ CreateTable
    \/ InsertRow
    \/ Commit
    \/ Return
    \/ ChangeDir

Spec == Init /\ [][Next]_vars

\* ------------------------------------------- store_pages_in_db on its own
\* the records a batch may hold, and the tables a call may find
StoreRecords ==
    {<<n, p, PageContent(t)>> : n \in RunNames, p \in 1..MaxBatch, t \in RawTexts}
Batches == UNION {[1..n -> StoreRecords] : n \in 0..MaxBatch}
PriorTables ==
    {SetToBag(R) : R \in {R \in SUBSET StoreRecords :
                            /\ Cardinality(R) <= MaxBatch
                            /\ \A r1, r2 \in R : Key(r1) = Key(r2) => r1 = r2}}

\* a call store_pages_in_db(records, db_path) is about to start: any batch,
\* any table; the file or the table may be absent when there are no rows
InitStore ==
    /\ dir \in {d \in Directories : DOMAIN d = {ATxt}}
    /\ limit = 0
    /\ db \in PriorTables
    /\ dbExists \in BOOLEAN
    /\ tableExists \in BOOLEAN
    /\ tableExists => dbExists
    /\ db # EmptyBag => tableExists
    /\ records \in Batches
    /\ pc = "connect"
    /\ pdf_files = <<>>
    /\ idx = 1
    /\ txn = EmptyBag
    /\ pos = 1
    /\ error = "none"
    /\ storeCalls = 0
    /\ dbBefore = db
    /\ existedBefore = <<dbExists, tableExists>>
    /\ runs = 0
    /\ changes = 0
    /\ rerun = FALSE

NextStore ==
    \/ Connect
    \/ CreateTable
    \/ InsertRow
    \/ Commit

SpecStore == InitStore /\ [][NextStore]_vars

\* ------------------------------------------- collect_pdf_files on its own
\* a file appears in the directory
AddFile ==
    /\ pc \in {"idle", "listed"}
    /\ Cardinality(DOMAIN dir) < MaxListed
    /\ \E n \in ListNames \ DOMAIN dir :
        dir' = [m \in DOMAIN dir \cup {n} |-> Corrupt]
    /\ pc' = "idle"
    /\ pdf_files' = <<>>
    /\ UNCHANGED <<dbExists, tableExists, db, limit, idx, records, txn, pos,
                   error, storeCalls, dbBefore, existedBefore, runs, changes,
                   rerun>>

\* a call collect_pdf_files(source_dir, limit), with limit or with the
\* limit of the call before
Collect ==
    /\ pc \in {"idle", "listed"}
    /\ \E l \in Limits :
        /\ limit' = l
        /\ pdf_files' = collect_pdf_files(dir, l)
    /\ pc' = "listed"
    /\ UNCHANGED <<dir, dbExists, tableExists, db, idx, records, txn, pos,
                   error, storeCalls, dbBefore, existedBefore, runs, changes,
                   rerun>>

InitLister ==
    /\ dir = [m \in {} |-> Corrupt]
    /\ limit = 0
    /\ dbExists = FALSE
    /\ tableExists = FALSE
    /\ db = EmptyBag
    /\ pc = "idle"
    /\ NoCall
    /\ runs = 0
    /\ changes = 0
    /\ rerun = FALSE

NextLister ==
    \/ AddFile
    \/ Collect

SpecLister == InitLister /\ [][NextLister]_vars

\* ------------------------------------------------------------ properties
BatchKeys == {Key(records[i]) : i \in 1..Len(records)}
RowsWithKey(tbl, k) == {r \in DOMAIN tbl : Key(r) = k}
UniqueKeys(tbl) ==
    \A r \in DOMAIN tbl : tbl[r] = 1 /\ RowsWithKey(tbl, Key(r)) = {r}
\* the triple at position i is the last of the batch with its key
LastOfKey(i) == \A j \in (i + 1)..Len(records) : Key(records[j]) # Key(records[i])

\* C1: store_pages_in_db is all-or-nothing.  Until the call returns, and
\* when it raises, the committed rows are the rows before the call, and a
\* call that raises leaves with the storage error; when it returns, every
\* triple of the batch is a row of the table unless a later triple of the
\* batch has replaced it.
C1_AllOrNothing ==
    /\ pc \in {"connect", "create", "insert", "raised"} => db = dbBefore
    /\ pc = "raised" => error = "sqlite3.Error"
    /\ pc = "done" =>
         /\ error = "none"
         /\ \A i \in 1..Len(records) :
              LastOfKey(i) => /\ records[i] \in DOMAIN db
                              /\ db[records[i]] = 1

\* a write failed after at least one triple had been written to a table
\* that held rows before the call
C1_Witness ==
    /\ pc = "raised"
    /\ pos >= 2
    /\ pos <= Len(records)
    /\ dbBefore # EmptyBag
    /\ records[1] \notin DOMAIN dbBefore

\* C2: pdf_pages holds at most one row per (file_name, page_number), in the
\* committed table and inside the transaction; a triple written by a run
\* is then the only row with its key, so it has replaced the row that had
\* the key before.
C2_OneRowPerKey ==
    /\ UniqueKeys(db)
    /\ UniqueKeys(txn)
    /\ pc = "insert" =>
         \A i \in 1..(pos - 1) :
            /\ RowsWithKey(txn, Key(records[i])) = {records[i]}
            /\ txn[records[i]] = 1
    /\ pc = "done" =>
         \A i \in 1..Len(records) :
            /\ RowsWithKey(db, Key(records[i])) = {records[i]}
            /\ db[records[i]] = 1

\* a run has committed a triple whose key had a row with other content
C2_Witness ==
    /\ pc = "done"
    /\ \E i \in 1..Len(records) : \E r \in DOMAIN dbBefore :
          Key(r) = Key(records[i]) /\ r # records[i]

\* C3: a run that follows a run on the same directory with the same limit
\* (the earlier one ended without storage error) leaves the table as it
\* found it, that is as the earlier run left it.
C3_Idempotent ==
    (pc \in {"done", "raised"} /\ rerun) => db = dbBefore

\* a second run on an unchanged directory has written rows again
C3_Witness ==
    /\ pc = "done"
    /\ rerun
    /\ Len(records) >= 2
    /\ db # EmptyBag

\* the key of page p of a file is in the table with exactly content c
Stored(tbl, name, p, c) ==
    /\ RowsWithKey(tbl, <<name, p>>) = {<<name, p, c>>}
    /\ tbl[<<name, p, c>>] = 1

Selected == {pdf_files[i] : i \in 1..Len(pdf_files)}

\* C4: after a successful run every page of every selected file has its
\* row, and the row's content is the trimmed text of that page.
C4_RoundTrip ==
    pc = "done" =>
        \A n \in Selected : \A p \in 1..Len(dir[n].pages) :
            Stored(db, n, p, PageContent(dir[n].pages[p]))

\* a successful run over two files, one page of which has text to trim and
\* another no text at all
C4_Witness ==
    /\ pc = "done"
    /\ Cardinality(Selected) = 2
    /\ \E n \in Selected : \E p \in 1..Len(dir[n].pages) :
          dir[n].pages[p] = RawXY /\ <<n, p, <<120, 32, 121>>>> \in DOMAIN db
    /\ \E n \in Selected : \E p \in 1..Len(dir[n].pages) :
          dir[n].pages[p] = None /\ <<n, p, <<>>>> \in DOMAIN db

\* C5: store_pages_in_db is called at most once in a run, and only when
\* every selected file has been extracted; when extraction fails the
\* writer has not been called and the database is as before the run.
C5_WriteOnceAtEnd ==
    /\ storeCalls <= 1
    /\ storeCalls = 1 => idx = Len(pdf_files) + 1
    /\ (pc = "raised" /\ error = "PdfReadError") =>
          /\ storeCalls = 0
          /\ db = dbBefore
          /\ <<dbExists, tableExists>> = existedBefore

\* extraction failed on the second file after the first gave records
C5_Witness ==
    /\ pc = "raised"
    /\ error = "PdfReadError"
    /\ idx = 2
    /\ records # <<>>
    /\ ~dbExists

\* C6: a run on a directory without *.pdf files fails with
\* FileNotFoundError, and a run that fails with it has extracted nothing,
\* has not called the writer and has left the database as it was.
C6_NoFiles ==
    /\ (pc # "idle" /\ glob(dir) = {}) =>
          pc = "raised" /\ error = "FileNotFoundError"
    /\ error = "FileNotFoundError" =>
          /\ pc = "raised"
          /\ idx = 1
          /\ records = <<>>
          /\ storeCalls = 0
          /\ db = dbBefore
          /\ <<dbExists, tableExists>> = existedBefore

\* a run on a directory that holds only a.txt has failed; no database
C6_Witness ==
    /\ pc = "raised"
    /\ error = "FileNotFoundError"
    /\ DOMAIN dir = {ATxt}
    /\ ~dbExists

\* C8 as claimed: whatever the limit, a run fails with FileNotFoundError
\* exactly when the directory holds no file matching *.pdf.
C8_NoFilesIffNoPdf ==
    pc # "idle" => ((error = "FileNotFoundError") <=> (glob(dir) = {}))

RECURSIVE SumPages(_)
SumPages(files) ==
    IF files = <<>> THEN 0
    ELSE Len(dir[Head(files)].pages) + SumPages(Tail(files))

\* C9: a successful run on an empty table leaves as many rows as the
\* selected files have pages.
C9_RowCount ==
    (pc = "done" /\ dbBefore = EmptyBag) =>
        BagCardinality(db) = SumPages(pdf_files)

\* a successful run on an absent database selected a file without pages
\* and a file with pages
C9_Witness ==
    /\ pc = "done"
    /\ existedBefore = <<FALSE, FALSE>>
    /\ \E n \in Selected : Len(dir[n].pages) = 0
    /\ \E n \in Selected : Len(dir[n].pages) = MaxPages
    /\ BagCardinality(db) = MaxPages

\* C10: a successful run leaves every row whose key is not in its batch as
\* it was.
C10_Frame ==
    pc = "done" =>
        \A r \in DOMAIN dbBefore :
            Key(r) \notin BatchKeys => r \in DOMAIN db /\ db[r] = dbBefore[r]

\* a successful run wrote rows and kept the row of a page that its file,
\* selected again, no longer has
C10_Witness ==
    /\ pc = "done"
    /\ records # <<>>
    /\ \E r \in DOMAIN db :
          /\ r[1] \in Selected
          /\ r[2] > Len(dir[r[1]].pages)
          /\ Key(r) \notin BatchKeys

\* a successful run kept the rows of a file that is no longer selected
C10_WitnessUnselected ==
    /\ pc = "done"
    /\ records # <<>>
    /\ \E r \in DOMAIN db : r[1] \notin Selected

\* C7: for a positive limit collect_pdf_files returns min(k, limit) names
\* of the k matching files, in ascending order, none of them greater than a
\* matching name left out; a second call on the same directory with the
\* same limit returns the same list.
C7_ListedInv ==
    (pc = "listed" /\ limit >= 1) =>
        /\ Len(pdf_files) = Min(Cardinality(glob(dir)), limit)
        /\ \A i \in 1..Len(pdf_files) : \A j \in 1..Len(pdf_files) :
              i < j => LexLess(pdf_files[i], pdf_files[j])
        /\ Selected \subseteq glob(dir)
        /\ \A m \in Selected : \A n \in glob(dir) \ Selected : LexLess(m, n)

C7_Lister ==
    /\ []C7_ListedInv
    /\ [][(pc = "listed" /\ pc' = "listed" /\ dir' = dir /\ limit' = limit)
            => pdf_files' = pdf_files]_vars

\* limit 2 on a directory of B.pdf, a-b.pdf, a.pdf and a.txt gives B.pdf
\* and a-b.pdf
C7_Witness ==
    /\ pc = "listed"
    /\ limit = 2
    /\ DOMAIN dir = {APdf, BPdf, ADBPdf, ATxt}
    /\ pdf_files = <<BPdf, ADBPdf>>

====
